---- MODULE Spec2Model ----
(***************************************************************************)
(* The regenerative rocket engine notebook                                 *)
(* (RegenerativeRocketEngineDesign-ThermodynamicsProject.ipynb) as a state *)
(* machine.  The state is the kernel's namespace (one field per Python     *)
(* name), the printed output, the property lookups issued to CoolProp and  *)
(* the position in the notebook.  There is one action per statement; pc is *)
(* the source line of the next statement.  An exception leaves pc on the   *)
(* raising line and ends the run: later statements and cells do not run.   *)
(*                                                                         *)
(* Python floats are modelled as exact rationals <<n, d>> in lowest terms. *)
(* A square root is kept symbolically (see Root).  PropsSI is an external  *)
(* black box: every call either raises or returns a value drawn from a     *)
(* small set, except that a query for one of its own input quantities      *)
(* returns that input.                                                     *)
(***************************************************************************)
EXTENDS Integers, Sequences, FiniteSets, TLC

VARIABLES pc, status, ns, writer, lit, out, calls, reads

vars == <<pc, status, ns, writer, lit, out, calls, reads>>

(* ------------------------------ rationals ------------------------------ *)

Abs(x) == IF x < 0 THEN -x ELSE x

RECURSIVE GCD(_, _)
GCD(a, b) == IF b = 0 THEN a ELSE GCD(b, a % b)

\* The value of a name that has not been assigned, and of a division by zero.
Undef == <<0, 0>>

\* n/d in lowest terms with a positive denominator.
Rat(n, d) ==
    IF d = 0 THEN Undef
    ELSE LET g == GCD(Abs(n), Abs(d))
             s == IF d < 0 THEN -1 ELSE 1
         IN  <<(s * n) \div g, (s * d) \div g>>

Num(n) == <<n, 1>>

IsZero(a) == a[1] = 0

RAdd(a, b) ==
    LET g == GCD(a[2], b[2])
    IN  Rat(a[1] * (b[2] \div g) + b[1] * (a[2] \div g), (a[2] \div g) * b[2])

RNeg(a) == <<-a[1], a[2]>>

RSub(a, b) == RAdd(a, RNeg(b))

\* Cross-reduced before multiplying, so that the products stay small.
RMul(a, b) ==
    LET g1 == GCD(Abs(a[1]), b[2])
        g2 == GCD(Abs(b[1]), a[2])
    IN  IF IsZero(a) \/ IsZero(b) THEN Num(0)
        ELSE Rat((a[1] \div g1) * (b[1] \div g2), (a[2] \div g2) * (b[2] \div g1))

RInv(a) == Rat(a[2], a[1])

RDiv(a, b) == IF IsZero(b) THEN Undef ELSE RMul(a, RInv(b))

RLt(a, b) == RSub(a, b)[1] < 0

RLe(a, b) == RSub(a, b)[1] <= 0

\* x ** 0.5 of Python, kept exact: <<c, r, i>> stands for c * sqrt(r), times
\* the imaginary unit when i = 1.  A negative float raised to 0.5 is a complex
\* number in Python 3, not an error.
Root(x) ==
    IF x[1] < 0 THEN <<Num(1), RNeg(x), 1>> ELSE <<Num(1), x, 0>>

\* A root value scaled by a rational (V / 343, mDot_Tot * V).
RootScale(k, v) == <<RMul(k, v[1]), v[2], v[3]>>

\* "{0:1.2f}".format(x): x rounded to two decimals, half to even, as
\* <<whole, hundredths>> with 0 <= hundredths < 100 (x = whole + hundredths/100).
Fmt2(x) ==
    LET whole == x[1] \div x[2]
        rem   == x[1] % x[2]
        q     == (rem * 100) \div x[2]
        r2    == 2 * ((rem * 100) % x[2])
        up    == r2 > x[2] \/ (r2 = x[2] /\ q % 2 = 1)
        c     == IF up THEN q + 1 ELSE q
    IN  IF c = 100 THEN <<whole + 1, 0>> ELSE <<whole, c>>

(* --------------------- inputs and the lookup service -------------------- *)

\* The literals the notebook is edited at: the two mass flow rates (lines
\* 157-158), the wall-heat fraction (line 213) and the improved design's
\* fraction (line 362).  The notebook's own values come first in each set.
MDotEVals == {Rat(1, 8), Num(0), Rat(-1, 8)}

MDotO2Vals == {Rat(1, 8), Num(0)}

WallFracVals == {Rat(1, 20), Rat(3, 2)}

SplitFracVals == {Rat(1, 2), Num(0), Num(1), Rat(3, 2)}

\* What a lookup may return, by output quantity.
HVals == {Num(272156), Num(-7000000)}

SVals == {Num(1000), Num(-2600)}

TVals == {Rat(35152, 100)}

\* The marker of a lookup that raised.
Fail == <<0, 0>>

\* PropsSI(out, k1, v1, k2, v2, fluid): the values the service may return.
PropsSI(q) ==
    IF q.out = q.k1 THEN {q.v1}
    ELSE IF q.out = q.k2 THEN {q.v2}
    ELSE IF q.out \in {"H", "Hmass"} THEN HVals
    ELSE IF q.out = "S" THEN SVals
    ELSE TVals

Query(o, k1, v1, k2, v2, f) ==
    [out |-> o, k1 |-> k1, v1 |-> v1, k2 |-> k2, v2 |-> v2, fluid |-> f]

(* ------------------------------- the state ------------------------------ *)

Names ==
    {"mDot_E", "mDot_O2", "mDot_Tot", "mm_E", "mm_O2",
     "Q_combustion", "Q_out", "Q_inWall", "Q_inWall_J",
     "p3_Pa", "x3", "fluid", "oxidizer",
     "h3_JperKg", "t3_K", "h2_JperKg", "s2_JperKgK", "t2_K",
     "p1_Pa", "t1_K", "h1_JperKg", "work_EPump",
     "h2_O2_JperKg", "s2_O2_JperKgK", "h1_O2_JperKg", "T1_O2_K", "work_OPump",
     "h1_gas", "h2_gas", "h3_gas", "V", "M", "Thrust_N"}

\* The code cell a source line belongs to.
CellOf(line) ==
    IF line < 200 THEN "FlowRates"
    ELSE IF line < 230 THEN "CombustionHeat"
    ELSE IF line < 250 THEN "InjectorFeed"
    ELSE IF line < 300 THEN "State32"
    ELSE IF line < 340 THEN "TankPump"
    ELSE IF line < 400 THEN "Improved"
    ELSE "Thrust"

Init ==
    /\ pc = 157
    /\ status = "running"
    /\ ns = [v \in Names |-> Undef]
    /\ writer = [v \in Names |-> "none"]
    /\ lit = [mDot_E |-> Undef, mDot_O2 |-> Undef,
              wallFrac |-> Undef, splitFrac |-> Undef]
    /\ out = <<>>
    /\ calls = <<>>
    /\ reads = {}

(* -------------------------- kinds of statement -------------------------- *)

Undefined(rd) == \E v \in rd : writer[v] = "none"

\* An exception: the statement has no effect and the run ends there.
Raise(e) ==
    /\ status' = e
    /\ UNCHANGED <<pc, ns, writer, lit, out, calls, reads>>

\* The names a statement reads, with the cell that produced each.
Noted(line, rd) == reads \cup {<<CellOf(line), v, writer[v]>> : v \in rd}

\* name = val, where val reads the names rd and divides by the names dv.
Assign(line, next, name, rd, dv, val) ==
    /\ pc = line
    /\ status = "running"
    /\ IF Undefined(rd) THEN Raise("NameError")
       ELSE IF \E d \in dv : IsZero(ns[d]) THEN Raise("ZeroDivisionError")
       ELSE /\ ns' = [ns EXCEPT ![name] = val]
            /\ writer' = [writer EXCEPT ![name] = CellOf(line)]
            /\ reads' = Noted(line, rd)
            /\ pc' = next
            /\ UNCHANGED <<status, lit, out, calls>>

\* print(label, val); the output keeps the line that printed it.
Show(line, next, label, rd, val) ==
    /\ pc = line
    /\ status = "running"
    /\ IF Undefined(rd) THEN Raise("NameError")
       ELSE /\ out' = Append(out, <<line, label, val>>)
            /\ reads' = Noted(line, rd)
            /\ pc' = next
            /\ UNCHANGED <<status, ns, writer, lit, calls>>

\* A call of PropsSI, logged with its result.
Called(line, q, r) ==
    Append(calls, [cell |-> CellOf(line), line |-> line, q |-> q, res |-> r])

\* name = PropsSI(q): the value is assigned unless the lookup raises.
Lookup(line, next, name, rd, q) ==
    /\ pc = line
    /\ status = "running"
    /\ IF Undefined(rd) THEN Raise("NameError")
       ELSE \E r \in PropsSI(q) \cup {Fail} :
            /\ calls' = Called(line, q, r)
            /\ reads' = Noted(line, rd)
            /\ IF r = Fail
               THEN /\ status' = "ValueError"
                    /\ UNCHANGED <<pc, ns, writer, lit, out>>
               ELSE /\ ns' = [ns EXCEPT ![name] = r]
                    /\ writer' = [writer EXCEPT ![name] = CellOf(line)]
                    /\ pc' = next
                    /\ UNCHANGED <<status, lit, out>>

\* print(label, PropsSI(q)): the value is printed unless the lookup raises.
ShowLookup(line, next, label, rd, q) ==
    /\ pc = line
    /\ status = "running"
    /\ IF Undefined(rd) THEN Raise("NameError")
       ELSE \E r \in PropsSI(q) \cup {Fail} :
            /\ calls' = Called(line, q, r)
            /\ reads' = Noted(line, rd)
            /\ IF r = Fail
               THEN /\ status' = "ValueError"
                    /\ UNCHANGED <<pc, ns, writer, lit, out>>
               ELSE /\ out' = Append(out, <<line, label, Fmt2(r)>>)
                    /\ pc' = next
                    /\ UNCHANGED <<status, ns, writer, lit>>

\* name = <literal>, the literal being one of the edited inputs.
Input(line, next, name, field, vals) ==
    /\ pc = line
    /\ status = "running"
    /\ \E x \in vals :
        /\ ns' = [ns EXCEPT ![name] = x]
        /\ lit' = [lit EXCEPT ![field] = x]
    /\ writer' = [writer EXCEPT ![name] = CellOf(line)]
    /\ pc' = next
    /\ UNCHANGED <<status, out, calls, reads>>

(* ------------------- the expressions of the notebook -------------------- *)

Calc_mDot_Tot(n) == RAdd(n.mDot_E, n.mDot_O2)

\* Calc_Q_out without the division by the three moles of oxygen per mole of fuel.
Mut_Q_out(n) == RMul(RDiv(n.mDot_O2, n.mm_O2), n.Q_combustion)

Calc_Q_out(n) ==
    RMul(RDiv(RDiv(n.mDot_O2, n.mm_O2), Num(3)), n.Q_combustion)

Calc_Q_inWall(n, f) == RMul(n.Q_out, f)

Calc_Q_inWall_J(n) == RMul(n.Q_inWall, Num(1000))

Calc_h2_JperKg(n) == RSub(n.h3_JperKg, RDiv(n.Q_inWall_J, n.mDot_E))

\* Calc_h2_JperKg_Improved without the factor 0.05.
Mut_h2_JperKg_Improved(n) ==
    RSub(n.h3_JperKg, RDiv(n.Q_inWall_J, n.mDot_E))

Calc_h2_JperKg_Improved(n) ==
    RSub(n.h3_JperKg, RDiv(RMul(n.Q_inWall_J, Rat(5, 100)), n.mDot_E))

Calc_work_EPump(n) ==
    RMul(RDiv(Num(1), n.mDot_E), RSub(n.h2_JperKg, n.h1_JperKg))

\* Calc_work_OPump taking the fuel's tank enthalpy as the pump inlet.
Mut_work_OPump(n) ==
    RMul(RDiv(Num(1), n.mDot_O2), RSub(n.h2_O2_JperKg, n.h1_JperKg))

Calc_work_OPump(n) ==
    RMul(RDiv(Num(1), n.mDot_O2), RSub(n.h2_O2_JperKg, n.h1_O2_JperKg))

Calc_h1_gas(n) ==
    RDiv(RAdd(RMul(n.h3_JperKg, n.mDot_E), RMul(n.h2_O2_JperKg, n.mDot_O2)),
         n.mDot_Tot)

\* Calc_h2_gas adding the wall heat in place of the combustion heat.
Mut_h2_gas(n) ==
    RAdd(n.h1_gas,
         RDiv(RMul(RMul(n.Q_inWall, Num(1000)), Rat(95, 100)), n.mDot_Tot))

Calc_h2_gas(n) ==
    RAdd(n.h1_gas,
         RDiv(RMul(RMul(n.Q_out, Num(1000)), Rat(95, 100)), n.mDot_Tot))

Calc_V(n) == Root(RMul(Num(2), RSub(n.h2_gas, n.h3_gas)))

Calc_M(n) == RootScale(Rat(1, 343), n.V)

Calc_Thrust_N(n) == RootScale(n.mDot_Tot, n.V)

Celsius(t) == Fmt2(RSub(t, Rat(27315, 100)))

\* The thrust cell run on the namespace n with its lookup answering: the
\* exception it ends in, or the velocity and thrust it assigns.
ThrustStage(n) ==
    IF IsZero(n.mDot_Tot)
    THEN [err |-> "ZeroDivisionError", V |-> <<Undef, Undef, 0>>,
          Thrust_N |-> <<Undef, Undef, 0>>]
    ELSE LET n1 == [n EXCEPT !.h1_gas = Calc_h1_gas(n)]
             n2 == [n1 EXCEPT !.h2_gas = Calc_h2_gas(n1)]
             n3 == [n2 EXCEPT !.h3_gas = RMul(Num(973), Rat(8, 10))]
             n4 == [n3 EXCEPT !.V = Calc_V(n3)]
         IN  [err |-> "none", V |-> n4.V, Thrust_N |-> Calc_Thrust_N(n4)]

\* TankEntropy handing the fuel's entropy to the oxidizer's lookups too.
Mut_TankEntropy(n, stream) == n.s2_JperKgK

\* The entropy handed to the tank-state lookups of a stream.
TankEntropy(n, stream) ==
    IF stream = "fuel" THEN n.s2_JperKgK ELSE n.s2_O2_JperKgK

\* Q_inWall = Q_out * <literal>, the literal being one of the edited inputs.
AssignFraction(line, next, field, vals) ==
    /\ pc = line
    /\ status = "running"
    /\ IF Undefined({"Q_out"}) THEN Raise("NameError")
       ELSE /\ \E x \in vals :
                /\ ns' = [ns EXCEPT !["Q_inWall"] = Calc_Q_inWall(ns, x)]
                /\ lit' = [lit EXCEPT ![field] = x]
            /\ writer' = [writer EXCEPT !["Q_inWall"] = CellOf(line)]
            /\ reads' = Noted(line, {"Q_out"})
            /\ pc' = next
            /\ UNCHANGED <<status, out, calls>>

(* --------------------------- cell: flow rates --------------------------- *)

L157_mDot_E == Input(157, 158, "mDot_E", "mDot_E", MDotEVals)

L158_mDot_O2 == Input(158, 159, "mDot_O2", "mDot_O2", MDotO2Vals)

L159_mDot_Tot ==
    Assign(159, 160, "mDot_Tot", {"mDot_E", "mDot_O2"}, {}, Calc_mDot_Tot(ns))

L160_mm_E == Assign(160, 161, "mm_E", {}, {}, Rat(46068, 1000000))

L161_mm_O2 == Assign(161, 163, "mm_O2", {}, {}, Rat(32, 1000))

L163_print == Show(163, 210, "Total mass flow rate", {"mDot_Tot"}, ns.mDot_Tot)

(* ------------------------ cell: combustion heat ------------------------- *)

L210_Q_combustion == Assign(210, 211, "Q_combustion", {}, {}, Num(1350))

L211_Q_out ==
    Assign(211, 213, "Q_out", {"mDot_O2", "mm_O2", "Q_combustion"}, {"mm_O2"},
           Calc_Q_out(ns))

L213_Q_inWall == AssignFraction(213, 214, "wallFrac", WallFracVals)

L214_Q_inWall_J ==
    Assign(214, 215, "Q_inWall_J", {"Q_inWall"}, {}, Calc_Q_inWall_J(ns))

L215_print ==
    Show(215, 216, "Heat into the wall kJ/s", {"Q_inWall"}, Fmt2(ns.Q_inWall))

L216_print ==
    Show(216, 242, "Heat into the wall J/s", {"Q_inWall_J"}, Fmt2(ns.Q_inWall_J))

(* ------------------------- cell: injector feed -------------------------- *)

L242_p3_Pa == Assign(242, 243, "p3_Pa", {}, {}, Num(1200000))

L243_x3 == Assign(243, 244, "x3", {}, {}, Num(0))

L244_fluid == Assign(244, 245, "fluid", {}, {}, "ethanol")

L245_oxidizer == Assign(245, 246, "oxidizer", {}, {}, "oxygen")

L246_print ==
    ShowLookup(246, 247, "Enthalpy", {"p3_Pa", "x3", "fluid"},
               Query("H", "P", ns.p3_Pa, "Q", ns.x3, ns.fluid))

L247_print ==
    ShowLookup(247, 266, "Temperature", {},
               Query("T", "P", Num(300000), "H", Num(0), "ethanol"))

(* ------------------ cell: injector and pre-heat-exchanger --------------- *)

L266_h3_JperKg ==
    Lookup(266, 267, "h3_JperKg", {"p3_Pa", "x3", "fluid"},
           Query("Hmass", "P", ns.p3_Pa, "Q", ns.x3, ns.fluid))

L267_t3_K ==
    Lookup(267, 270, "t3_K", {"p3_Pa", "x3", "fluid"},
           Query("T", "P", ns.p3_Pa, "Q", ns.x3, ns.fluid))

L270_h2_JperKg ==
    Assign(270, 271, "h2_JperKg", {"h3_JperKg", "Q_inWall_J", "mDot_E"},
           {"mDot_E"}, Calc_h2_JperKg(ns))

L271_s2_JperKgK ==
    Lookup(271, 272, "s2_JperKgK", {"p3_Pa", "h2_JperKg", "fluid"},
           Query("S", "P", ns.p3_Pa, "Hmass", ns.h2_JperKg, ns.fluid))

L272_t2_K ==
    Lookup(272, 274, "t2_K", {"p3_Pa", "h2_JperKg", "fluid"},
           Query("T", "P", ns.p3_Pa, "H", ns.h2_JperKg, ns.fluid))

L274_print == Show(274, 275, "Inlet temperature", {"t2_K"}, Celsius(ns.t2_K))

L275_print == Show(275, 313, "Outlet temperature", {"t3_K"}, Celsius(ns.t3_K))

(* ------------------- cell: tank states and pump work -------------------- *)

L313_p1_Pa == Assign(313, 315, "p1_Pa", {}, {}, Num(300000))

L315_t1_K ==
    Lookup(315, 316, "t1_K", {"p1_Pa", "s2_JperKgK", "fluid"},
           Query("T", "P", ns.p1_Pa, "S", TankEntropy(ns, "fuel"), ns.fluid))

L316_h1_JperKg ==
    Lookup(316, 317, "h1_JperKg", {"p1_Pa", "s2_JperKgK", "fluid"},
           Query("H", "P", ns.p1_Pa, "S", TankEntropy(ns, "fuel"), ns.fluid))

L317_print ==
    Show(317, 319, "Enthanol tank temperature", {"t1_K"}, Celsius(ns.t1_K))

L319_work_EPump ==
    Assign(319, 320, "work_EPump", {"mDot_E", "h2_JperKg", "h1_JperKg"},
           {"mDot_E"}, Calc_work_EPump(ns))

L320_print ==
    Show(320, 322, "Fuel pump work", {"work_EPump"}, Fmt2(ns.work_EPump))

L322_h2_O2_JperKg ==
    Lookup(322, 323, "h2_O2_JperKg", {"p3_Pa", "oxidizer"},
           Query("H", "P", ns.p3_Pa, "Q", Num(0), ns.oxidizer))

L323_s2_O2_JperKgK ==
    Lookup(323, 325, "s2_O2_JperKgK", {"p3_Pa", "oxidizer"},
           Query("S", "P", ns.p3_Pa, "Q", Num(0), ns.oxidizer))

L325_h1_O2_JperKg ==
    Lookup(325, 326, "h1_O2_JperKg", {"p1_Pa", "s2_O2_JperKgK", "oxidizer"},
           Query("H", "P", ns.p1_Pa, "S", TankEntropy(ns, "oxidizer"),
                 ns.oxidizer))

L326_T1_O2_K ==
    Lookup(326, 327, "T1_O2_K", {"p1_Pa", "s2_O2_JperKgK", "oxidizer"},
           Query("T", "P", ns.p1_Pa, "S", TankEntropy(ns, "oxidizer"),
                 ns.oxidizer))

L327_print ==
    Show(327, 329, "Oxygen temperature", {"T1_O2_K"}, Celsius(ns.T1_O2_K))

L329_work_OPump ==
    Assign(329, 330, "work_OPump", {"mDot_O2", "h2_O2_JperKg", "h1_O2_JperKg"},
           {"mDot_O2"}, Calc_work_OPump(ns))

L330_print ==
    Show(330, 362, "Oxidizer pump work", {"work_OPump"}, Fmt2(ns.work_OPump))

(* ------------------------ cell: improved design ------------------------- *)

L362_Q_inWall == AssignFraction(362, 363, "splitFrac", SplitFracVals)

L363_Q_inWall_J ==
    Assign(363, 364, "Q_inWall_J", {"Q_inWall"}, {}, Calc_Q_inWall_J(ns))

L364_h2_JperKg ==
    Assign(364, 365, "h2_JperKg", {"h3_JperKg", "Q_inWall_J", "mDot_E"},
           {"mDot_E"}, Calc_h2_JperKg_Improved(ns))

L365_s2_JperKgK ==
    Lookup(365, 366, "s2_JperKgK", {"p3_Pa", "h2_JperKg", "fluid"},
           Query("S", "P", ns.p3_Pa, "Hmass", ns.h2_JperKg, ns.fluid))

\* L366_t2_K assigning the injector temperature's name.
Mut_L366_t2_K ==
    Lookup(366, 368, "t3_K", {"p3_Pa", "h2_JperKg", "fluid"},
           Query("T", "P", ns.p3_Pa, "H", ns.h2_JperKg, ns.fluid))

L366_t2_K ==
    Lookup(366, 368, "t2_K", {"p3_Pa", "h2_JperKg", "fluid"},
           Query("T", "P", ns.p3_Pa, "H", ns.h2_JperKg, ns.fluid))

L368_print == Show(368, 369, "Inlet temperature", {"t2_K"}, Celsius(ns.t2_K))

L369_print == Show(369, 371, "Outlet temperature", {"t3_K"}, Celsius(ns.t3_K))

L371_t1_K ==
    Lookup(371, 372, "t1_K", {"p1_Pa", "s2_JperKgK", "fluid"},
           Query("T", "P", ns.p1_Pa, "S", TankEntropy(ns, "fuel"), ns.fluid))

\* L372_h1_JperKg assigning the oxidizer's tank enthalpy.
Mut_L372_h1_JperKg ==
    Lookup(372, 373, "h1_O2_JperKg", {"p1_Pa", "s2_JperKgK", "fluid"},
           Query("H", "P", ns.p1_Pa, "S", TankEntropy(ns, "fuel"), ns.fluid))

L372_h1_JperKg ==
    Lookup(372, 373, "h1_JperKg", {"p1_Pa", "s2_JperKgK", "fluid"},
           Query("H", "P", ns.p1_Pa, "S", TankEntropy(ns, "fuel"), ns.fluid))

L373_print ==
    Show(373, 375, "Enthanol tank temperature", {"t1_K"}, Celsius(ns.t1_K))

L375_work_EPump ==
    Assign(375, 376, "work_EPump", {"mDot_E", "h2_JperKg", "h1_JperKg"},
           {"mDot_E"}, Calc_work_EPump(ns))

L376_print ==
    Show(376, 432, "Fuel pump work", {"work_EPump"}, Fmt2(ns.work_EPump))

(* ------------------------------ cell: thrust ---------------------------- *)

\* L432_h1_gas taking the fuel's pre-heat-exchanger enthalpy.
Mut_L432_h1_gas ==
    Assign(432, 434, "h1_gas",
           {"h2_JperKg", "mDot_E", "h2_O2_JperKg", "mDot_O2", "mDot_Tot"},
           {"mDot_Tot"},
           RDiv(RAdd(RMul(ns.h2_JperKg, ns.mDot_E),
                     RMul(ns.h2_O2_JperKg, ns.mDot_O2)), ns.mDot_Tot))

L432_h1_gas ==
    Assign(432, 434, "h1_gas",
           {"h3_JperKg", "mDot_E", "h2_O2_JperKg", "mDot_O2", "mDot_Tot"},
           {"mDot_Tot"}, Calc_h1_gas(ns))

L434_h2_gas ==
    Assign(434, 437, "h2_gas", {"h1_gas", "Q_out", "mDot_Tot"}, {"mDot_Tot"},
           Calc_h2_gas(ns))

L437_h3_gas ==
    Lookup(437, 439, "h3_gas", {},
           Query("T", "P", Num(101325), "T", RMul(Num(973), Rat(8, 10)), "CO2"))

L439_V == Assign(439, 440, "V", {"h2_gas", "h3_gas"}, {}, Calc_V(ns))

L440_M == Assign(440, 442, "M", {"V"}, {}, Calc_M(ns))

L442_Thrust_N ==
    Assign(442, 444, "Thrust_N", {"mDot_Tot", "V"}, {}, Calc_Thrust_N(ns))

\* The two-decimal rendering of a root is not computed: the value is kept.
L444_print == Show(444, 445, "Exhaust Velocity", {"V"}, ns.V)

L445_print == Show(445, 0, "Thrust", {"Thrust_N"}, ns.Thrust_N)

(* ---------------------------- the whole run ----------------------------- *)

FlowRatesCell ==
    \/ L157_mDot_E \/ L158_mDot_O2 \/ L159_mDot_Tot
    \/ L160_mm_E \/ L161_mm_O2 \/ L163_print

CombustionHeatCell ==
    \/ L210_Q_combustion \/ L211_Q_out \/ L213_Q_inWall
    \/ L214_Q_inWall_J \/ L215_print \/ L216_print

InjectorFeedCell ==
    \/ L242_p3_Pa \/ L243_x3 \/ L244_fluid \/ L245_oxidizer
    \/ L246_print \/ L247_print

State32Cell ==
    \/ L266_h3_JperKg \/ L267_t3_K \/ L270_h2_JperKg
    \/ L271_s2_JperKgK \/ L272_t2_K \/ L274_print \/ L275_print

TankPumpCell ==
    \/ L313_p1_Pa \/ L315_t1_K \/ L316_h1_JperKg \/ L317_print
    \/ L319_work_EPump \/ L320_print
    \/ L322_h2_O2_JperKg \/ L323_s2_O2_JperKgK
    \/ L325_h1_O2_JperKg \/ L326_T1_O2_K \/ L327_print
    \/ L329_work_OPump \/ L330_print

ImprovedCell ==
    \/ L362_Q_inWall \/ L363_Q_inWall_J \/ L364_h2_JperKg
    \/ L365_s2_JperKgK \/ L366_t2_K \/ L368_print \/ L369_print
    \/ L371_t1_K \/ L372_h1_JperKg \/ L373_print
    \/ L375_work_EPump \/ L376_print

ThrustCell ==
    \/ L432_h1_gas \/ L434_h2_gas \/ L437_h3_gas \/ L439_V \/ L440_M
    \/ L442_Thrust_N \/ L444_print \/ L445_print

Next ==
    \/ FlowRatesCell
    \/ CombustionHeatCell
    \/ InjectorFeedCell
    \/ State32Cell
    \/ TankPumpCell
    \/ ImprovedCell
    \/ ThrustCell

Spec == Init /\ [][Next]_vars

(* ------------------------------ vocabulary ------------------------------ *)

\* The statement at a line has run to its end.
Past(line) == pc = 0 \/ pc > line

Assigned(x) == x[2] # 0

\* The scenario a cell's computation belongs to.
Scenario(cell) ==
    IF cell \in {"State32", "TankPump"} THEN "baseline"
    ELSE IF cell = "Improved" THEN "improved"
    ELSE "shared"

\* Heat the fuel takes up between its pre-heat-exchanger and injector states.
FuelAbsorbed_J == RMul(ns.mDot_E, RSub(ns.h3_JperKg, ns.h2_JperKg))

\* The heat each scenario directs to the fuel stream, in J/s: the whole wall
\* heat in the baseline, 0.05 of the improved cell's wall heat after it.
FuelHeat_J(scenario) ==
    IF scenario = "baseline"
    THEN RMul(RMul(ns.Q_out, lit.wallFrac), Num(1000))
    ELSE RMul(RMul(RMul(ns.Q_out, lit.splitFrac), Num(1000)), Rat(1, 20))

(* -------------------------------- claims -------------------------------- *)

\* C1: in the baseline and in the improved scenario, whatever the fraction,
\* the fuel's pre-heat-exchanger enthalpy plus the heat directed to the fuel
\* stream per unit of fuel mass flow equals the fuel's injector enthalpy.
C1_EnergyBalance ==
    writer.h2_JperKg # "none" =>
        RAdd(ns.h2_JperKg,
             RDiv(FuelHeat_J(Scenario(writer.h2_JperKg)), ns.mDot_E))
            = ns.h3_JperKg

\* The improved cell has recomputed the enthalpy with a fraction in [0,1] and
\* a nonzero heat.
C1_Witness ==
    /\ writer.h2_JperKg = "Improved"
    /\ lit.splitFrac = Rat(1, 2)
    /\ ~IsZero(FuelHeat_J("improved"))

\* The last lookup before calls[i] that returned an entropy of the same fluid.
LastEntropyCall(i) ==
    LET js == {j \in 1..(i - 1) :
                 /\ calls[j].q.out = "S"
                 /\ calls[j].q.fluid = calls[i].q.fluid
                 /\ calls[j].res # Fail}
    IN  IF js = {} THEN 0 ELSE CHOOSE j \in js : \A k \in js : k <= j

\* C2: every tank-state lookup (tank pressure, entropy) of either stream is
\* given the entropy returned by the latest feed-pressure entropy lookup of
\* the same stream, and that lookup belongs to the same scenario.
C2_Isentropic ==
    \A i \in DOMAIN calls :
        calls[i].q.k2 = "S" =>
            LET j == LastEntropyCall(i)
            IN  /\ j # 0
                /\ calls[i].q.v1 = Num(300000)
                /\ calls[j].q.v1 = Num(1200000)
                /\ calls[i].q.v2 = calls[j].res
                /\ Scenario(calls[j].cell) = Scenario(calls[i].cell)

\* Both the oxidizer's and the improved scenario's tank lookups were issued,
\* the two streams' entropies differing and the fuel's having changed.
C2_Witness ==
    /\ \E i \in DOMAIN calls :
         calls[i].q.k2 = "S" /\ calls[i].q.fluid = "oxygen"
    /\ \E i \in DOMAIN calls :
         calls[i].q.k2 = "S" /\ calls[i].cell = "Improved"
    /\ \E i, k \in DOMAIN calls :
         /\ calls[i].q.k2 = "S" /\ calls[k].q.k2 = "S"
         /\ calls[i].q.fluid = "ethanol" /\ calls[k].q.fluid = "ethanol"
         /\ calls[i].q.v2 # calls[k].q.v2
    /\ ns.s2_O2_JperKgK # ns.s2_JperKgK

\* C3: no statement of the improved cell changes what the thrust cell
\* computes, and the thrust cell assigns exactly that velocity and thrust.
C3_ThrustScenarioIndependent ==
    [][/\ CellOf(pc) = "Improved" /\ pc # 0 =>
            ThrustStage(ns') = ThrustStage(ns)
       /\ pc = 442 /\ pc' = 444 =>
            /\ ns'.V = ThrustStage(ns).V
            /\ ns'.Thrust_N = ThrustStage(ns).Thrust_N]_vars

\* The thrust was computed after the improved cell changed the wall heat.
C3_Witness ==
    /\ pc = 0
    /\ writer.Q_inWall = "Improved"
    /\ lit.splitFrac # lit.wallFrac
    /\ ~IsZero(ns.Q_out)
    /\ writer.Thrust_N = "Thrust"

\* C4: when the enthalpy before expansion exceeds the assumed exhaust
\* enthalpy the thrust is a non-negative real number; when the radicand
\* 2*(h2_gas - h3_gas) is negative the thrust cell stops at the square root
\* and assigns neither a velocity nor a thrust.
C4_ThrustOutcome ==
    Past(437) =>
        /\ (RLt(ns.h3_gas, ns.h2_gas) /\ writer.Thrust_N # "none") =>
               /\ ns.Thrust_N[3] = 0
               /\ ns.Thrust_N[1][1] >= 0
        /\ RLt(ns.h2_gas, ns.h3_gas) =>
               /\ pc = 439
               /\ writer.V = "none"
               /\ writer.Thrust_N = "none"

\* An edited literal that the data model rules out: a mass flow rate that is
\* not positive, a fraction outside [0,1].
BadFlow(x) == Assigned(x) /\ x[1] <= 0

BadFraction(x) == Assigned(x) /\ (x[1] < 0 \/ x[1] > x[2])

ParamsValid ==
    /\ ~BadFlow(lit.mDot_E)
    /\ ~BadFlow(lit.mDot_O2)
    /\ ~BadFraction(lit.wallFrac)
    /\ ~BadFraction(lit.splitFrac)

\* C5: with a non-positive mass flow rate or a wall-heat fraction outside
\* [0,1] no lookup is ever issued and the run can end only in
\* InvalidParameterError; with a heat-split fraction outside [0,1] the
\* improved cell issues no lookup.
C5_EagerValidation ==
    /\ (BadFlow(lit.mDot_E) \/ BadFlow(lit.mDot_O2) \/ BadFraction(lit.wallFrac))
           => /\ calls = <<>>
              /\ status \in {"running", "InvalidParameterError"}
    /\ BadFraction(lit.splitFrac)
           => /\ \A i \in DOMAIN calls : calls[i].cell # "Improved"
              /\ status \in {"running", "InvalidParameterError"}

\* C6 (for valid parameters): when a lookup of a scenario has failed,
\* nothing of that scenario has been printed, and if the improved cell
\* failed, none of the names it assigns again has been overwritten by it.
C6_NoPartialResults ==
    (ParamsValid /\ status = "ValueError" /\ Scenario(CellOf(pc)) # "shared") =>
        /\ \A i \in DOMAIN out :
               Scenario(CellOf(out[i][1])) # Scenario(CellOf(pc))
        /\ CellOf(pc) = "Improved" => \A v \in Names : writer[v] # "Improved"

\* Heat the oxidizer takes up on its way to the injector.  The notebook has
\* one oxidizer state at feed pressure, h2_O2_JperKg, which is both the pump
\* exit and the injector state.
OxAbsorbed_J == RMul(ns.mDot_O2, RSub(ns.h2_O2_JperKg, ns.h2_O2_JperKg))

\* C7: with valid parameters the wall heat is at most the combustion heat,
\* and once the improved cell has recomputed the fuel's state the heat taken
\* up by the fuel plus the heat taken up by the oxidizer is the wall heat.
C7_HeatBudget ==
    ParamsValid =>
        /\ writer.Q_inWall # "none" => RLe(ns.Q_inWall, ns.Q_out)
        /\ writer.h2_JperKg = "Improved" =>
               RAdd(FuelAbsorbed_J, OxAbsorbed_J) = ns.Q_inWall_J

\* The pipeline stage of the spec that produces a name, from the cell that
\* assigned it: 1 flow rates, 2 combustion heat, 3 injector state,
\* 4 pre-heat-exchanger state, 5 tank state and pump work (stages 5 and 6
\* share a cell), 7 thrust.  The improved cell re-runs stages 4 to 6.
StageOf(cell, name) ==
    IF cell = "FlowRates" THEN 1
    ELSE IF cell = "CombustionHeat" THEN 2
    ELSE IF cell = "InjectorFeed" THEN 3
    ELSE IF cell = "State32"
         THEN (IF name \in {"h3_JperKg", "t3_K"} THEN 3 ELSE 4)
    ELSE IF cell \in {"TankPump", "Improved"} THEN 5
    ELSE 7

ThrustReads == {r \in reads : r[1] = "Thrust"}

\* C8 as stated: the thrust cell reads, besides its own names, only names
\* produced by stages 1 to 3.
C8_ThrustReadsStages123 ==
    \A r \in ThrustReads : StageOf(r[3], r[2]) \in {1, 2, 3, 7}

\* C8 amended: the thrust cell reads, besides its own names, only names
\* produced by stages 1 to 3 and the oxidizer's feed-pressure enthalpy
\* h2_O2_JperKg, which the tank-state and pump-work cell assigns; it reads
\* that name, and nothing of stage 4 or of the improved cell.
C8_ThrustReads ==
    /\ \A r \in ThrustReads :
           \/ StageOf(r[3], r[2]) \in {1, 2, 3, 7}
           \/ r[2] = "h2_O2_JperKg" /\ r[3] = "TankPump"
    /\ Past(432) => <<"Thrust", "h2_O2_JperKg", "TankPump">> \in reads

\* The thrust cell has run to its end after the improved cell.
C8_Witness ==
    /\ pc = 0
    /\ writer.h2_JperKg = "Improved"
    /\ <<"Thrust", "Thrust_N", "Thrust">> \in reads

\* C9 as stated: a name that has been assigned keeps its value and its
\* producer for the rest of the run.
C9_SingleAssignment ==
    [][\A v \in Names :
           writer[v] # "none" => writer'[v] = writer[v] /\ ns'[v] = ns[v]]_vars

\* The names the improved cell assigns again.
Reassigned ==
    {"Q_inWall", "Q_inWall_J", "h2_JperKg", "s2_JperKgK", "t2_K",
     "t1_K", "h1_JperKg", "work_EPump"}

\* C9 amended: a name that has been assigned keeps its value and producer,
\* except the wall heat, the fuel's pre-heat-exchanger and tank states and the
\* fuel pump work, each of which the improved cell assigns once more, the
\* baseline value being lost; no other name is ever reassigned.
C9_ReassignedOnlyByImproved ==
    [][\A v \in Names :
           writer[v] # "none" =>
               \/ writer'[v] = writer[v] /\ ns'[v] = ns[v]
               \/ /\ v \in Reassigned
                  /\ writer[v] # "Improved"
                  /\ writer'[v] = "Improved"]_vars

\* The improved cell has run to its end and replaced all eight names, the
\* wall heat by a different value.
C9_Witness ==
    /\ Past(376)
    /\ \A v \in Reassigned : writer[v] = "Improved"
    /\ ns.Q_inWall_J # FuelHeat_J("baseline")

\* The combustion heat rate of the claim, in J/s, from the edited oxidizer
\* flow: (flow / 0.032 kg/mol / 3) * 1350 kJ/mol.
CombustionRate_J ==
    RMul(RMul(RDiv(RDiv(lit.mDot_O2, Rat(32, 1000)), Num(3)), Num(1350)),
         Num(1000))

\* C10: with the notebook's fractions the fuel takes up 0.05 of the
\* combustion heat rate in the baseline (87890.625 J/s at 0.125 kg/s of
\* oxygen) and 0.5 * 0.05 of it after the improved cell, half the baseline.
C10_FuelAbsorption ==
    /\ (writer.h2_JperKg = "State32" /\ lit.wallFrac = Rat(1, 20)) =>
           /\ FuelAbsorbed_J = RMul(Rat(5, 100), CombustionRate_J)
           /\ writer.Q_inWall_J = "CombustionHeat" => ns.Q_inWall_J = FuelAbsorbed_J
           /\ lit.mDot_O2 = Rat(1, 8) => FuelAbsorbed_J = Rat(87890625, 1000)
    /\ (writer.h2_JperKg = "Improved" /\ lit.splitFrac = Rat(1, 2)) =>
           /\ FuelAbsorbed_J = RMul(RMul(Rat(1, 2), Rat(5, 100)), CombustionRate_J)
           /\ lit.wallFrac = Rat(1, 20) =>
                  FuelAbsorbed_J = RDiv(FuelHeat_J("baseline"), Num(2))

\* The improved cell has recomputed the fuel's state with the notebook's own
\* literals.
C10_Witness ==
    /\ writer.h2_JperKg = "Improved"
    /\ lit.mDot_E = Rat(1, 8)
    /\ lit.mDot_O2 = Rat(1, 8)
    /\ lit.wallFrac = Rat(1, 20)
    /\ lit.splitFrac = Rat(1, 2)
    /\ FuelAbsorbed_J = Rat(439453125, 10000)

\* The values a cell has printed under a label.
Reported(cell, label) ==
    {out[i][3] : i \in {k \in DOMAIN out :
                          CellOf(out[k][1]) = cell /\ out[k][2] = label}}

\* The enthalpy a cell's tank-state lookup (enthalpy at given entropy)
\* returned for a fluid.
TankEnthalpy(cell, f) ==
    LET is == {i \in DOMAIN calls :
                 /\ calls[i].cell = cell
                 /\ calls[i].q.out = "H"
                 /\ calls[i].q.k2 = "S"
                 /\ calls[i].q.fluid = f
                 /\ calls[i].res # Fail}
    IN  IF is = {} THEN Undef ELSE calls[CHOOSE i \in is : TRUE].res

\* The enthalpy at feed pressure a pump delivers: for the fuel the
\* pre-heat-exchanger enthalpy of the cell's scenario (the injector enthalpy
\* less the heat directed to the fuel per unit of fuel flow), for the oxidizer
\* the saturated-liquid enthalpy looked up at feed pressure.
ExitEnthalpy(cell, f) ==
    IF f = "ethanol"
    THEN RSub(ns.h3_JperKg, RDiv(FuelHeat_J(Scenario(cell)), lit.mDot_E))
    ELSE LET is == {i \in DOMAIN calls :
                      /\ calls[i].q.out = "H"
                      /\ calls[i].q.k1 = "P"
                      /\ calls[i].q.v1 = Num(1200000)
                      /\ calls[i].q.k2 = "Q"
                      /\ calls[i].q.fluid = f
                      /\ calls[i].res # Fail}
         IN  IF is = {} THEN Undef ELSE calls[CHOOSE i \in is : TRUE].res

\* (1 / mass flow rate) * (exit enthalpy - tank enthalpy) of a stream, with
\* the enthalpies of the scenario of a cell.
PumpWork(cell, f, mDot) ==
    RMul(RInv(mDot), RSub(ExitEnthalpy(cell, f), TankEnthalpy(cell, f)))

\* C11: the pump work each cell assigns and prints for a stream is
\* (1 / mass flow rate of the stream) * (enthalpy before the heat exchanger -
\* tank enthalpy), both enthalpies being of that stream and of the cell's
\* scenario; the oxidizer's are its feed-pressure and tank lookups; and the
\* pump-work statements read enthalpies produced in their own scenario.
C11_PumpWork ==
    /\ \A c \in {"TankPump", "Improved"} :
           /\ writer.work_EPump = c =>
                  ns.work_EPump = PumpWork(c, "ethanol", lit.mDot_E)
           /\ \A v \in Reported(c, "Fuel pump work") :
                  v = Fmt2(PumpWork(c, "ethanol", lit.mDot_E))
    /\ writer.work_OPump # "none" =>
           /\ writer.work_OPump = "TankPump"
           /\ ns.work_OPump = PumpWork("TankPump", "oxygen", lit.mDot_O2)
    /\ \A v \in Reported("TankPump", "Oxidizer pump work") :
           v = Fmt2(PumpWork("TankPump", "oxygen", lit.mDot_O2))
    /\ Reported("Improved", "Oxidizer pump work") = {}
    /\ \A r \in reads :
           (r[1] \in {"TankPump", "Improved"}
              /\ r[2] \in {"h2_JperKg", "h1_JperKg", "s2_JperKgK"}) =>
               Scenario(r[3]) = Scenario(r[1])

\* All three pump works were printed, the fuel's differing between the two
\* scenarios and the two streams' tank enthalpies differing.
C11_Witness ==
    /\ Past(376)
    /\ Reported("TankPump", "Fuel pump work")
           # Reported("Improved", "Fuel pump work")
    /\ Reported("Improved", "Fuel pump work") # {}
    /\ Reported("TankPump", "Oxidizer pump work") # {}
    /\ TankEnthalpy("TankPump", "oxygen") # TankEnthalpy("Improved", "ethanol")
    /\ ~IsZero(ns.work_OPump)

\* The names of the oxidizer's states and of its pump work.
OxidizerNames ==
    {"h2_O2_JperKg", "s2_O2_JperKgK", "h1_O2_JperKg", "T1_O2_K", "work_OPump"}

====
